---------------------------- MODULE Spec2Model ----------------------------
(***************************************************************************)
(* A model of the `cal` calendar renderer: the date arithmetic of          *)
(* range.rs / wrapper.rs, the month renderer and grid composer of          *)
(* format.rs, the planner CalRange::iter, the command line layer of        *)
(* cli.rs, and the earlier single-file engine of lib.rs (YearMonth).       *)
(*                                                                         *)
(* Text is held as TLA+ strings, so widths, padding and joins are what the *)
(* code produces.  A u32 is held as two 16-bit limbs [hi, lo] (value       *)
(* hi * 2^16 + lo) because the model checker's integers are 32-bit signed; *)
(* every u32 operation reports overflow, and the build decides what an     *)
(* overflow does: a panic when overflow checks are compiled in (debug      *)
(* profile), wrap-around modulo 2^32 when they are not (release profile).  *)
(***************************************************************************)
EXTENDS Integers, Sequences, FiniteSets, TLC

VARIABLES
    overflow_checks,  \* build profile: TRUE = overflow panics, FALSE = wraps
    moy,              \* the MonthOfYear a function is applied to
    fday,             \* the first weekday handed to the renderer
    pc,               \* which operation has acted last
    ret,              \* what that operation returned
    cli,              \* the Cli struct clap parsed from the command line
    env,              \* what the process reads: the local date, the terminal
    cal,              \* what parse_cli returned: Ok(CalFormat) or Err
    iter,             \* the Take<MOYIter> of CalRange::iter: cursor, items left
    months,           \* the months the iterator has yielded, in order
    cals,             \* the calendar() of each, as format collects them
    output            \* the String format returned

vars == <<overflow_checks, moy, fday, pc, ret,
          cli, env, cal, iter, months, cals, output>>

\* the variables of one function call, and those of a run of the program
call_vars == <<moy, fday, ret>>
run_vars == <<cli, env, cal, iter, months, cals, output>>

-----------------------------------------------------------------------------
(* Bounds of the model.                                                    *)

\* years 0 .. YearSpan are enumerated one by one (six 400-year cycles, the
\* years of the repository's tests among them)
YearSpan == 2400
\* how many years on each side of a boundary of the u32 range are enumerated
EdgeSpan == 2
\* the largest NUM given to --months, and the largest given to --column
MaxLen == 5
MaxColumn == 3

-----------------------------------------------------------------------------
(* u32 arithmetic on two 16-bit limbs.                                     *)

Limb == 2^16

U32(n) == [hi |-> n \div Limb, lo |-> n % Limb]

U32_MAX == [hi |-> Limb - 1, lo |-> Limb - 1]

\* a u32 that fits the checker's integers, as an integer
U32ToInt(x) == x.hi * Limb + x.lo

Ok(x) == [ok |-> TRUE, hi |-> x.hi, lo |-> x.lo]

Panic == [ok |-> FALSE, hi |-> 0, lo |-> 0]

\* a + b on u32: overflow panics under overflow checks, wraps otherwise
u32_add(a, b, oc) ==
    IF ~a.ok \/ ~b.ok THEN Panic
    ELSE LET lo == a.lo + b.lo
             hi == a.hi + b.hi + (lo \div Limb)
         IN  IF hi >= Limb /\ oc THEN Panic
             ELSE [ok |-> TRUE, hi |-> hi % Limb, lo |-> lo % Limb]

\* a - b on u32: underflow panics under overflow checks, wraps otherwise
u32_sub(a, b, oc) ==
    IF ~a.ok \/ ~b.ok THEN Panic
    ELSE LET borrow == IF a.lo < b.lo THEN 1 ELSE 0
             lo == a.lo - b.lo + borrow * Limb
             hi == a.hi - b.hi - borrow
         IN  IF hi < 0 /\ oc THEN Panic
             ELSE [ok |-> TRUE, hi |-> (hi + Limb) % Limb, lo |-> lo]

\* a / d on u32 for a small divisor d > 0 (never overflows)
u32_div(a, d) ==
    IF ~a.ok THEN Panic
    ELSE [ok |-> TRUE, hi |-> a.hi \div d,
          lo |-> ((a.hi % d) * Limb + a.lo) \div d]

\* a % d on u32 for a small divisor d > 0, as an integer
u32_rem(a, d) == ((a.hi % d) * Limb + a.lo) % d

\* Display for u32: the decimal digits, no padding
RECURSIVE u32_to_string(_)
u32_to_string(x) ==
    IF x.hi = 0 /\ x.lo < 10 THEN ToString(x.lo)
    ELSE u32_to_string(u32_div(Ok(x), 10)) \o ToString(u32_rem(x, 10))


-----------------------------------------------------------------------------
(* wrapper.rs: Year, Month, Weekday.                                       *)

Max(a, b) == IF a >= b THEN a ELSE b

\* what a call that panicked leaves behind
Panicked == [ok |-> FALSE]

Return(x) == [ok |-> TRUE, v |-> x]

\* Result::unwrap: an Err panics
Unwrap(r) == IF r.ok THEN Return(r.v) ELSE Panicked

\* the u32 inside an Ok(...) of the limb arithmetic
Limbs(r) == [hi |-> r.hi, lo |-> r.lo]

Year_pred(self, oc) == u32_sub(Ok(self), Ok(U32(1)), oc)

Year_succ(self, oc) == u32_add(Ok(self), Ok(U32(1)), oc)

\* a slip: the Julian rule, every fourth year
is_leap_year_Julian(self) == u32_rem(self, 4) = 0

is_leap_year(self) ==
    IF u32_rem(self, 400) = 0 THEN TRUE
    ELSE IF u32_rem(self, 100) = 0 THEN FALSE
    ELSE u32_rem(self, 4) = 0

\* TryFrom<u8> for Month: January = 1 .. December = 12
Month_try_from(value) ==
    IF value \in 1..12 THEN [ok |-> TRUE, v |-> value]
    ELSE [ok |-> FALSE, err |-> "InvalidMonth", val |-> value]

Month_pred(self) ==
    IF self = 1 THEN Return(12) ELSE Unwrap(Month_try_from(self - 1))

Month_succ(self) ==
    IF self = 12 THEN Return(1) ELSE Unwrap(Month_try_from(self + 1))

\* Display for Month prints the variant's name
Month_to_string(self) ==
    <<"January", "February", "March", "April", "May", "June", "July",
      "August", "September", "October", "November", "December">>[self]

\* TryFrom<u8> for Weekday: Sunday = 0 .. Saturday = 6
Weekday_try_from(value) ==
    IF value \in 0..6 THEN [ok |-> TRUE, v |-> value]
    ELSE [ok |-> FALSE, err |-> "InvalidWeekday", val |-> value]

-----------------------------------------------------------------------------
(* range.rs: MonthOfYear.                                                  *)

MonthOfYear_new(year, month) ==
    LET m == Month_try_from(month)
    IN  IF m.ok THEN [ok |-> TRUE, v |-> [year |-> year, month |-> m.v]]
        ELSE m

num_of_days(self) ==
    IF self.month \in {1, 3, 5, 7, 8, 10, 12} THEN 31
    ELSE IF self.month \in {4, 6, 9, 11} THEN 30
    ELSE IF is_leap_year(self.year) THEN 29 ELSE 28

weekday_of_first(self, oc) ==
    LET a  == (14 - self.month) \div 12
        y  == u32_sub(Ok(self.year), Ok(U32(a)), oc)
        m  == self.month + 12 * a - 2
        s1 == u32_add(Ok(U32(1)), y, oc)
        s2 == u32_add(s1, u32_div(y, 4), oc)
        s3 == u32_sub(s2, u32_div(y, 100), oc)
        s4 == u32_add(s3, u32_div(y, 400), oc)
        s5 == u32_add(s4, Ok(U32((31 * m) \div 12)), oc)
    IN  IF s5.ok THEN Unwrap(Weekday_try_from(u32_rem(s5, 7))) ELSE Panicked

\* a slip: the year is not stepped back at January
pred_KeepYear(self, oc) ==
    LET m == Month_pred(self.month)
    IN  IF m.ok THEN Return([year |-> self.year, month |-> m.v]) ELSE Panicked

pred(self, oc) ==
    LET y == IF self.month = 1 THEN Year_pred(self.year, oc) ELSE Ok(self.year)
        m == Month_pred(self.month)
    IN  IF y.ok /\ m.ok THEN Return([year |-> Limbs(y), month |-> m.v])
        ELSE Panicked

succ(self, oc) ==
    LET y == IF self.month = 12 THEN Year_succ(self.year, oc) ELSE Ok(self.year)
        m == Month_succ(self.month)
    IN  IF y.ok /\ m.ok THEN Return([year |-> Limbs(y), month |-> m.v])
        ELSE Panicked

-----------------------------------------------------------------------------
(* format.rs: the month block renderer.                                    *)

MONTH_WIDTH == 21
DAYS_HEIGHT == 6

RECURSIVE Spaces(_)
Spaces(n) == IF n <= 0 THEN "" ELSE " " \o Spaces(n - 1)

\* format!("{:>w$}", s): right-justified, never truncated
AlignRight(s, w) == Spaces(w - Len(s)) \o s

\* format!("{:^w$}", s): centred, the odd space of the slack after the text
AlignCenter(s, w) ==
    LET slack == IF Len(s) >= w THEN 0 ELSE w - Len(s)
    IN  Spaces(slack \div 2) \o s \o Spaces((slack + 1) \div 2)

\* the strings of a sequence, one after the other, sep between neighbours
RECURSIVE Join(_, _)
Join(ss, sep) ==
    IF Len(ss) = 0 THEN ""
    ELSE IF Len(ss) = 1 THEN ss[1]
    ELSE ss[1] \o sep \o Join(Tail(ss), sep)

\* Display for Weekday: the two-letter abbreviation
Weekday_to_string(self) ==
    <<"Su", "Mo", "Tu", "We", "Th", "Fr", "Sa">>[self + 1]

\* Weekday - Weekday: how many days after the right-hand weekday the
\* left-hand one falls, 0..6
Weekday_sub(self, rhs) == (self - rhs) % 7

week_line(self) ==
    LET w == [i \in 0..6 |-> Unwrap(Weekday_try_from((i + self) % 7))]
    IN  IF \A i \in 0..6 : w[i].ok
        THEN Return(Join([i \in 1..7 |-> Weekday_to_string(w[i - 1].v) \o " "], ""))
        ELSE Panicked

\* a slip: the odd space of the slack goes before the text
header_ExtraSpaceBefore(self) ==
    LET t == Month_to_string(self.month) \o " " \o u32_to_string(self.year)
        slack == MONTH_WIDTH - Len(t)
    IN  Spaces((slack + 1) \div 2) \o t \o Spaces(slack \div 2)

\* a slip: the header leaves the year out
header_NoYear(self) == AlignCenter(Month_to_string(self.month), MONTH_WIDTH)

\* a slip: the header is not centred
header_Uncentred(self) ==
    Month_to_string(self.month) \o " " \o u32_to_string(self.year)

header(self) ==
    AlignCenter(Month_to_string(self.month) \o " " \o u32_to_string(self.year),
                MONTH_WIDTH)

\* a slip: the last day of the month is left out
day_cell_ExclusiveEnd(d, month_length) ==
    IF 1 <= d /\ d < month_length THEN AlignRight(ToString(d), 2) \o " "
    ELSE "   "

\* one cell of the day grid
day_cell(d, month_length) ==
    IF 1 <= d /\ d <= month_length THEN AlignRight(ToString(d), 2) \o " "
    ELSE "   "

\* a slip: one day row too few
day_matrix_FiveRows(self, first, oc) ==
    LET w == weekday_of_first(self, oc)
    IN  IF ~w.ok THEN Panicked
        ELSE LET start == 1 - Weekday_sub(w.v, first)
                 month_length == num_of_days(self)
             IN  Return([n \in 1..(DAYS_HEIGHT - 1) |->
                     Join([c \in 1..7 |->
                              day_cell(start + 7 * (n - 1) + (c - 1), month_length)],
                          "")])

day_matrix(self, first, oc) ==
    LET w == weekday_of_first(self, oc)
    IN  IF ~w.ok THEN Panicked
        ELSE LET start == 1 - Weekday_sub(w.v, first)
                 month_length == num_of_days(self)
             IN  Return([n \in 1..DAYS_HEIGHT |->
                     Join([c \in 1..7 |->
                              day_cell(start + 7 * (n - 1) + (c - 1), month_length)],
                          "")])

calendar(self, first, oc) ==
    LET wl == week_line(first)
        dm == day_matrix(self, first, oc)
    IN  IF wl.ok /\ dm.ok THEN Return(<<header(self), wl.v>> \o dm.v)
        ELSE Panicked

-----------------------------------------------------------------------------
(* lib.rs: the single-file engine, YearMonth(year, month).                 *)

DAY_ROWS == 6

YearMonth_is_leap_year(self) ==
    IF u32_rem(self.year, 400) = 0 THEN TRUE
    ELSE IF u32_rem(self.year, 100) = 0 THEN FALSE
    ELSE u32_rem(self.year, 4) = 0

YearMonth_num_of_days(self) ==
    IF self.month \in {1, 3, 5, 7, 8, 10, 12} THEN 31
    ELSE IF self.month \in {4, 6, 9, 11} THEN 30
    ELSE IF YearMonth_is_leap_year(self) THEN 29 ELSE 28

YearMonth_weekday_of_first(self, oc) ==
    LET a  == (14 - self.month) \div 12
        y  == u32_sub(Ok(self.year), Ok(U32(a)), oc)
        m  == self.month + 12 * a - 2
        s1 == u32_add(Ok(U32(1)), y, oc)
        s2 == u32_add(s1, u32_div(y, 4), oc)
        s3 == u32_sub(s2, u32_div(y, 100), oc)
        s4 == u32_add(s3, u32_div(y, 400), oc)
        s5 == u32_add(s4, Ok(U32((31 * m) \div 12)), oc)
    IN  IF s5.ok THEN Return(u32_rem(s5, 7)) ELSE Panicked

YearMonth_month_header(self) ==
    AlignCenter(Month_to_string(self.month) \o " " \o u32_to_string(self.year),
                MONTH_WIDTH)

WEEK_HEADER == <<"Su ", "Mo ", "Tu ", "We ", "Th ", "Fr ", "Sa ">>

\* a slip: the row always starts at Sunday
YearMonth_week_header_SundayFirst(first) ==
    Join([i \in 1..7 |-> WEEK_HEADER[i]], "")

YearMonth_week_header(first) ==
    Join([i \in 1..7 |-> WEEK_HEADER[(((i - 1) + first) % 7) + 1]], "")

\* a slip: the weekday difference is not reduced mod 7
YearMonth_day_matrix_NoRemEuclid(self, first, oc) ==
    LET w == YearMonth_weekday_of_first(self, oc)
    IN  IF ~w.ok THEN Panicked
        ELSE LET start == 1 - (w.v - first)
                 month_length == YearMonth_num_of_days(self)
             IN  Return([n \in 1..DAY_ROWS |->
                     Join([c \in 1..7 |->
                              day_cell(start + 7 * (n - 1) + (c - 1), month_length)],
                          "")])

YearMonth_day_matrix(self, first, oc) ==
    LET w == YearMonth_weekday_of_first(self, oc)
    IN  IF ~w.ok THEN Panicked
        ELSE LET start == 1 - ((w.v - first) % 7)
                 month_length == YearMonth_num_of_days(self)
             IN  Return([n \in 1..DAY_ROWS |->
                     Join([c \in 1..7 |->
                              day_cell(start + 7 * (n - 1) + (c - 1), month_length)],
                          "")])

YearMonth_calendar(self, first, oc) ==
    LET dm == YearMonth_day_matrix(self, first, oc)
    IN  IF dm.ok
        THEN Return(<<YearMonth_month_header(self), YearMonth_week_header(first)>>
                    \o dm.v)
        ELSE Panicked

-----------------------------------------------------------------------------
(* range.rs: CalRange and its iterator.                                    *)

CalRange_new(year, month, len, span) ==
    LET origin == MonthOfYear_new(year, month)
    IN  IF origin.ok
        THEN [ok |-> TRUE, v |-> [origin |-> origin.v, len |-> len, span |-> span]]
        ELSE origin

\* start = start.pred(), k times
RECURSIVE PredTimes(_, _, _)
PredTimes(start, k, oc) ==
    IF k = 0 THEN Return(start)
    ELSE LET p == pred(start, oc)
         IN  IF p.ok THEN PredTimes(p.v, k - 1, oc) ELSE Panicked

\* a slip: the window is centred right-biased, (len - 1) / 2 months back
CalRange_iter_RightBiased(self, oc) ==
    LET start == IF self.span
                 THEN PredTimes(self.origin, Max(self.len - 1, 0) \div 2, oc)
                 ELSE Return(self.origin)
    IN  IF start.ok THEN Return([cursor |-> start.v, left |-> self.len])
        ELSE Panicked

\* CalRange::iter: start.iter().take(len), start moved back len / 2 months
\* when spanning
CalRange_iter(self, oc) ==
    LET start == IF self.span THEN PredTimes(self.origin, self.len \div 2, oc)
                 ELSE Return(self.origin)
    IN  IF start.ok THEN Return([cursor |-> start.v, left |-> self.len])
        ELSE Panicked

\* a slip: the cursor is moved before it is yielded
MOYIter_next_SkipFirst(cursor, oc) ==
    LET nxt == succ(cursor, oc)
    IN  IF nxt.ok THEN Return([item |-> nxt.v, cursor |-> nxt.v]) ELSE Panicked

\* MOYIter::next: yields the cursor and moves it to its successor
MOYIter_next(cursor, oc) ==
    LET nxt == succ(cursor, oc)
    IN  IF nxt.ok THEN Return([item |-> cursor, cursor |-> nxt.v]) ELSE Panicked

-----------------------------------------------------------------------------
(* format.rs: the grid composer.                                           *)

\* slice::chunks: consecutive groups of k, the last one maybe shorter
RECURSIVE chunks(_, _)
chunks(v, k) ==
    IF Len(v) = 0 THEN <<>>
    ELSE IF Len(v) <= k THEN <<v>>
    ELSE <<SubSeq(v, 1, k)>> \o chunks(SubSeq(v, k + 1, Len(v)), k)

\* a slip: the blocks of a group are joined by two spaces
format_TwoSpaces(collected, column) ==
    IF column = 0 THEN Panicked
    ELSE LET groups == chunks(collected, column)
             group_text(cs) ==
                 Join([i \in 1..Len(cs[1]) |->
                          Join([b \in 1..Len(cs) |-> cs[b][i]], "  ")],
                      "\n")
         IN  Return(Join([g \in 1..Len(groups) |-> group_text(groups[g])], "\n"))

\* CalFormat::format, once the calendars are collected
format(collected, column) ==
    IF column = 0 THEN Panicked
    ELSE LET groups == chunks(collected, column)
             group_text(cs) ==
                 Join([i \in 1..Len(cs[1]) |->
                          Join([b \in 1..Len(cs) |-> cs[b][i]], " ")],
                      "\n")
         IN  Return(Join([g \in 1..Len(groups) |-> group_text(groups[g])], "\n"))

-----------------------------------------------------------------------------
(* cli.rs: from the parsed command line to a CalFormat.                    *)

None == [some |-> FALSE]
Some(x) == [some |-> TRUE, v |-> x]

MAX_COL == 3
DEFAULT_TERM_WIDTH == 80

\* termsize is what termsize::get() returns: None, or Some(columns)
default_column(termsize) ==
    IF termsize.some /\ termsize.v < DEFAULT_TERM_WIDTH
    THEN Max(termsize.v \div MONTH_WIDTH, 1)
    ELSE MAX_COL

\* a slip: the year flag keeps the queried month as the first month
parse_cli_YearFromQuery(c, now, termsize) ==
    LET year  == IF c.year.some THEN c.year.v ELSE now.year
        month == IF c.month.some THEN c.month.v ELSE now.month
        range ==
            IF c.len_1 THEN CalRange_new(year, month, 1, FALSE)
            ELSE IF c.len_3 THEN CalRange_new(year, month, 3, TRUE)
            ELSE IF c.len_y THEN CalRange_new(year, month, 12, FALSE)
            ELSE IF c.len_n.some THEN CalRange_new(year, month, c.len_n.v, c.span)
            ELSE IF c.year.some /\ ~c.month.some
                 THEN CalRange_new(year, 1, 12, FALSE)
                 ELSE CalRange_new(year, month, 1, FALSE)
        first ==
            IF c.fday_m THEN Return(1)
            ELSE IF c.fday_n.some THEN Weekday_try_from(c.fday_n.v)
            ELSE Return(0)
        column ==
            IF c.column.some THEN Max(c.column.v, 1) ELSE default_column(termsize)
    IN  IF ~range.ok THEN range
        ELSE IF ~first.ok THEN first
        ELSE [ok |-> TRUE,
              v |-> [range |-> range.v, fday |-> first.v, column |-> column]]

\* a slip: the three-month flag spans only with the span flag
parse_cli_ThreeWithSpanFlag(c, now, termsize) ==
    LET year  == IF c.year.some THEN c.year.v ELSE now.year
        month == IF c.month.some THEN c.month.v ELSE now.month
        range ==
            IF c.len_1 THEN CalRange_new(year, month, 1, FALSE)
            ELSE IF c.len_3 THEN CalRange_new(year, month, 3, c.span)
            ELSE IF c.len_y THEN CalRange_new(year, 1, 12, FALSE)
            ELSE IF c.len_n.some THEN CalRange_new(year, month, c.len_n.v, c.span)
            ELSE IF c.year.some /\ ~c.month.some
                 THEN CalRange_new(year, 1, 12, FALSE)
                 ELSE CalRange_new(year, month, 1, FALSE)
        first ==
            IF c.fday_m THEN Return(1)
            ELSE IF c.fday_n.some THEN Weekday_try_from(c.fday_n.v)
            ELSE Return(0)
        column ==
            IF c.column.some THEN Max(c.column.v, 1) ELSE default_column(termsize)
    IN  IF ~range.ok THEN range
        ELSE IF ~first.ok THEN first
        ELSE [ok |-> TRUE,
              v |-> [range |-> range.v, fday |-> first.v, column |-> column]]

parse_cli(c, now, termsize) ==
    LET year  == IF c.year.some THEN c.year.v ELSE now.year
        month == IF c.month.some THEN c.month.v ELSE now.month
        range ==
            IF c.len_1 THEN CalRange_new(year, month, 1, FALSE)
            ELSE IF c.len_3 THEN CalRange_new(year, month, 3, TRUE)
            ELSE IF c.len_y THEN CalRange_new(year, 1, 12, FALSE)
            ELSE IF c.len_n.some THEN CalRange_new(year, month, c.len_n.v, c.span)
            ELSE IF c.year.some /\ ~c.month.some
                 THEN CalRange_new(year, 1, 12, FALSE)
                 ELSE CalRange_new(year, month, 1, FALSE)
        first ==
            IF c.fday_m THEN Return(1)
            ELSE IF c.fday_n.some THEN Weekday_try_from(c.fday_n.v)
            ELSE Return(0)
        column ==
            IF c.column.some THEN Max(c.column.v, 1) ELSE default_column(termsize)
    IN  IF ~range.ok THEN range
        ELSE IF ~first.ok THEN first
        ELSE [ok |-> TRUE,
              v |-> [range |-> range.v, fday |-> first.v, column |-> column]]

-----------------------------------------------------------------------------
(* The date-arithmetic specification: one function of range.rs /           *)
(* wrapper.rs is applied to a month drawn from the years below.            *)

\* the first year y with 1 + y + y/4 > u32::MAX, as limbs (0xCCCCCCCC)
OverflowYear == [hi |-> 52428, lo |-> 52428]

\* no program is running while a single function is applied
NoRun ==
    /\ cli = None
    /\ env = None
    /\ cal = None
    /\ iter = None
    /\ months = <<>>
    /\ cals = <<>>
    /\ output = None

DateYears ==
    {U32(n) : n \in 0..YearSpan}
    \cup {[hi |-> OverflowYear.hi, lo |-> OverflowYear.lo + d] :
             d \in (0 - EdgeSpan)..EdgeSpan}
    \cup {[hi |-> U32_MAX.hi, lo |-> U32_MAX.lo - d] : d \in 0..EdgeSpan}

InitDate ==
    /\ overflow_checks \in BOOLEAN
    /\ moy \in [year : DateYears, month : 1..12]
    /\ fday = 0
    /\ pc = "start"
    /\ ret = Panicked
    /\ NoRun

CallIsLeapYear ==
    /\ pc = "start"
    /\ pc' = "is_leap_year"
    /\ ret' = Return(is_leap_year(moy.year))
    /\ UNCHANGED <<overflow_checks, moy, fday, run_vars>>

CallNumOfDays ==
    /\ pc = "start"
    /\ pc' = "num_of_days"
    /\ ret' = Return(num_of_days(moy))
    /\ UNCHANGED <<overflow_checks, moy, fday, run_vars>>

CallWeekdayOfFirst ==
    /\ pc = "start"
    /\ pc' = "weekday_of_first"
    /\ ret' = weekday_of_first(moy, overflow_checks)
    /\ UNCHANGED <<overflow_checks, moy, fday, run_vars>>

CallSucc ==
    /\ pc = "start"
    /\ pc' = "succ"
    /\ ret' = succ(moy, overflow_checks)
    /\ UNCHANGED <<overflow_checks, moy, fday, run_vars>>

CallPred ==
    /\ pc = "start"
    /\ pc' = "pred"
    /\ ret' = pred(moy, overflow_checks)
    /\ UNCHANGED <<overflow_checks, moy, fday, run_vars>>

\* lib.rs's engine: YearMonth(year, month).weekday_of_first()
CallYearMonthWeekdayOfFirst ==
    /\ pc = "start"
    /\ pc' = "YearMonth_weekday_of_first"
    /\ ret' = YearMonth_weekday_of_first(moy, overflow_checks)
    /\ UNCHANGED <<overflow_checks, moy, fday, run_vars>>

\* m.succ().pred()
CallPredOfSucc ==
    /\ pc = "succ"
    /\ ret.ok
    /\ pc' = "succ_pred"
    /\ ret' = pred(ret.v, overflow_checks)
    /\ UNCHANGED <<overflow_checks, moy, fday, run_vars>>

\* m.pred().succ()
CallSuccOfPred ==
    /\ pc = "pred"
    /\ ret.ok
    /\ pc' = "pred_succ"
    /\ ret' = succ(ret.v, overflow_checks)
    /\ UNCHANGED <<overflow_checks, moy, fday, run_vars>>

NextDate ==
    \/ CallIsLeapYear
    \/ CallNumOfDays
    \/ CallWeekdayOfFirst
    \/ CallYearMonthWeekdayOfFirst
    \/ CallSucc
    \/ CallPred
    \/ CallPredOfSucc
    \/ CallSuccOfPred

SpecDate == InitDate /\ [][NextDate]_vars

-----------------------------------------------------------------------------
(* The program: parse_cli makes a CalFormat of the command line, and       *)
(* CalFormat::format plans the months (CalRange::iter, MOYIter::next),     *)
(* renders each (calendar) and composes the grid.                          *)

\* no single function is applied while the program runs
NoCall ==
    /\ moy = [year |-> U32(0), month |-> 1]
    /\ fday = 0
    /\ ret = Panicked

\* at most one of -1, -3, -y, -n NUM: clap's group "len"
LenArgs ==
    {[len_1 |-> a = 1, len_3 |-> a = 2, len_y |-> a = 3, len_n |-> None] :
        a \in 0..3}
    \cup {[len_1 |-> FALSE, len_3 |-> FALSE, len_y |-> FALSE, len_n |-> Some(n)] :
             n \in 0..MaxLen}

\* at most one of -s, -m, -f N: clap's group "fday"; 3 is Wednesday, 7 is
\* no weekday
FdayArgs ==
    {[fday_s |-> a = 1, fday_m |-> a = 2, fday_n |-> None] : a \in 0..2}
    \cup {[fday_s |-> FALSE, fday_m |-> FALSE, fday_n |-> Some(n)] : n \in {3, 7}}

ColumnArgs == {None} \cup {Some(n) : n \in 0..MaxColumn}

\* the positionals: nothing, a year, or a year and a month; 13 is no month
QueryYears == {U32(1), U32(2022), U32_MAX}
QueryMonths == {1, 12, 13}

DateArgs ==
    {[year |-> None, month |-> None]}
    \cup {[year |-> Some(y), month |-> None] : y \in QueryYears}
    \cup {[year |-> Some(y), month |-> Some(m)] : y \in QueryYears, m \in QueryMonths}

CliArgs ==
    {[len_1 |-> l.len_1, len_3 |-> l.len_3, len_y |-> l.len_y, len_n |-> l.len_n,
      span |-> s,
      fday_s |-> f.fday_s, fday_m |-> f.fday_m, fday_n |-> f.fday_n,
      column |-> c, year |-> d.year, month |-> d.month] :
        l \in LenArgs, s \in BOOLEAN, f \in FdayArgs, c \in ColumnArgs,
        d \in DateArgs}

\* Local::now(): the day the repository's tests are about
Today == [year |-> U32(2022), month |-> 11]

\* termsize::get(): no terminal, or one of these widths; it is read only
\* when --column is absent
TermSizes == {None, Some(20), Some(50)}

Init ==
    /\ overflow_checks \in BOOLEAN
    /\ NoCall
    /\ pc = "cli"
    /\ cli \in CliArgs
    /\ env \in [now : {Today},
                termsize : IF cli.column.some THEN {None} ELSE TermSizes]
    /\ cal = None
    /\ iter = None
    /\ months = <<>>
    /\ cals = <<>>
    /\ output = None

ParseCli ==
    /\ pc = "cli"
    /\ cal' = parse_cli(cli, env.now, env.termsize)
    /\ pc' = IF cal'.ok THEN "parsed" ELSE "error"
    /\ UNCHANGED <<overflow_checks, call_vars, cli, env, iter, months, cals, output>>

\* format: self.range.iter()
RangeIter ==
    /\ pc = "parsed"
    /\ LET it == CalRange_iter(cal.v.range, overflow_checks)
       IN  /\ iter' = IF it.ok THEN it.v ELSE iter
           /\ pc' = IF it.ok THEN "iter" ELSE "panic"
    /\ UNCHANGED <<overflow_checks, call_vars, cli, env, cal, months, cals, output>>

\* format: one more item pulled through take(len) and map(calendar)
IterNext ==
    /\ pc = "iter"
    /\ iter.left > 0
    /\ LET nx == MOYIter_next(iter.cursor, overflow_checks)
           c  == calendar(nx.v.item, cal.v.fday, overflow_checks)
       IN  IF nx.ok
           THEN /\ months' = Append(months, nx.v.item)
                /\ iter' = [cursor |-> nx.v.cursor, left |-> iter.left - 1]
                /\ cals' = IF c.ok THEN Append(cals, c.v) ELSE cals
                /\ pc' = IF c.ok THEN "iter" ELSE "panic"
           ELSE /\ pc' = "panic"
                /\ UNCHANGED <<months, iter, cals>>
    /\ UNCHANGED <<overflow_checks, call_vars, cli, env, cal, output>>

\* format: the iterator is exhausted; collect, chunks, join
Format ==
    /\ pc = "iter"
    /\ iter.left = 0
    /\ output' = format(cals, cal.v.column)
    /\ pc' = IF output'.ok THEN "done" ELSE "panic"
    /\ UNCHANGED <<overflow_checks, call_vars, cli, env, cal, iter, months, cals>>

Next ==
    \/ ParseCli
    \/ RangeIter
    \/ IterNext
    \/ Format

Spec == Init /\ [][Next]_vars

-----------------------------------------------------------------------------
(* Claims about the date arithmetic, checked under SpecDate.               *)

\* y + 1 = z over the unbounded integers, for u32 limbs y and z
IsNextYear(y, z) ==
    \/ y.lo < Limb - 1 /\ z = [hi |-> y.hi, lo |-> y.lo + 1]
    \/ y.lo = Limb - 1 /\ y.hi < Limb - 1 /\ z = [hi |-> y.hi + 1, lo |-> 0]

\* the Gregorian rule as the claim words it
GregorianLeap(y) ==
    \/ u32_rem(y, 400) = 0
    \/ u32_rem(y, 4) = 0 /\ u32_rem(y, 100) # 0

\* C7 (as claimed): for every year >= 1 and month 1..12 weekday_of_first
\* returns the true weekday of day 1: it returns a weekday, the weekday of
\* the following month's day 1 is it plus the month's length mod 7, and
\* November 2022 is Tuesday, December 2022 Thursday, January 2023 Sunday,
\* February 2023 Wednesday.
C7_TrueWeekdayEveryYear ==
    (pc = "weekday_of_first" /\ moy.year # U32(0)) =>
        /\ ret.ok
        /\ LET n == succ(moy, overflow_checks)
               w == weekday_of_first(n.v, overflow_checks)
           IN  n.ok => (w.ok /\ w.v = (ret.v + num_of_days(moy)) % 7)
        /\ (moy = [year |-> U32(2022), month |-> 11]) => ret.v = 2
        /\ (moy = [year |-> U32(2022), month |-> 12]) => ret.v = 4
        /\ (moy = [year |-> U32(2023), month |-> 1]) => ret.v = 0
        /\ (moy = [year |-> U32(2023), month |-> 2]) => ret.v = 3

\* C7, below the overflow: the same for the years 1 .. 3435973835, whose
\* sums all fit a u32
C7_TrueWeekdayBelowOverflow ==
    (pc = "weekday_of_first" /\ moy.year # U32(0)
        /\ (moy.year.hi < OverflowYear.hi
            \/ (moy.year.hi = OverflowYear.hi /\ moy.year.lo < OverflowYear.lo))) =>
        /\ ret.ok
        /\ LET n == succ(moy, overflow_checks)
               w == weekday_of_first(n.v, overflow_checks)
           IN  n.ok /\ w.ok /\ w.v = (ret.v + num_of_days(moy)) % 7
        /\ (moy = [year |-> U32(2022), month |-> 11]) => ret.v = 2
        /\ (moy = [year |-> U32(2022), month |-> 12]) => ret.v = 4
        /\ (moy = [year |-> U32(2023), month |-> 1]) => ret.v = 0
        /\ (moy = [year |-> U32(2023), month |-> 2]) => ret.v = 3

\* C8: month_length is 31 for months 1,3,5,7,8,10,12, 30 for 4,6,9,11, and
\* for February 29 exactly in leap years, where is_leap_year(y) holds iff y
\* is divisible by 400, or by 4 and not by 100 (2000, 2020 leap; 2021, 2100
\* not).
C8_MonthLength ==
    /\ pc = "num_of_days" =>
          /\ ret.ok
          /\ moy.month \in {1, 3, 5, 7, 8, 10, 12} => ret.v = 31
          /\ moy.month \in {4, 6, 9, 11} => ret.v = 30
          /\ moy.month = 2 => (ret.v = 29 <=> GregorianLeap(moy.year))
          /\ moy.month = 2 => ret.v \in {28, 29}
    /\ pc = "is_leap_year" =>
          /\ ret.ok
          /\ ret.v <=> GregorianLeap(moy.year)
          /\ moy.year \in {U32(2000), U32(2020)} => ret.v
          /\ moy.year \in {U32(2021), U32(2100)} => ~ret.v

\* February of a century year that is no leap year has 28 days
C8_Witness ==
    /\ pc = "num_of_days"
    /\ moy = [year |-> U32(2100), month |-> 2]
    /\ ret = Return(28)

\* the month after m, and the month before it, over the unbounded integers
IsNextMonth(m, n) ==
    IF m.month = 12 THEN n.month = 1 /\ IsNextYear(m.year, n.year)
    ELSE n.month = m.month + 1 /\ n.year = m.year

\* C9 (as claimed): pred(succ(m)) = m and succ(pred(m)) = m for all
\* MonthOfYear m; succ of December of year y is January of y+1, pred of
\* January of year y is December of y-1, the year unchanged otherwise.
C9_RoundTripEveryMonth ==
    /\ pc = "succ" =>
          /\ ret.ok
          /\ IsNextMonth(moy, ret.v)
          /\ pred(ret.v, overflow_checks) = Return(moy)
    /\ pc = "pred" =>
          /\ ret.ok
          /\ IsNextMonth(ret.v, moy)
          /\ succ(ret.v, overflow_checks) = Return(moy)
    /\ pc = "succ_pred" => ret = Return(moy)
    /\ pc = "pred_succ" => ret = Return(moy)

\* the two months whose neighbour's year no u32 holds
LastMonth == [year |-> U32_MAX, month |-> 12]
FirstMonth == [year |-> U32(0), month |-> 1]

\* C9 (amended): the same, for every m but December of year 4294967295
\* under succ and January of year 0 under pred.
C9_RoundTripInsideRange ==
    /\ (pc = "succ" /\ moy # LastMonth) =>
          /\ ret.ok
          /\ IsNextMonth(moy, ret.v)
          /\ pred(ret.v, overflow_checks) = Return(moy)
    /\ (pc = "pred" /\ moy # FirstMonth) =>
          /\ ret.ok
          /\ IsNextMonth(ret.v, moy)
          /\ succ(ret.v, overflow_checks) = Return(moy)
    /\ (pc = "succ_pred" /\ moy # LastMonth) => ret = Return(moy)
    /\ (pc = "pred_succ" /\ moy # FirstMonth) => ret = Return(moy)

\* the round trip across a year boundary: December 2022, January 2023 and
\* back
C9_Witness ==
    /\ pc = "succ_pred"
    /\ moy = [year |-> U32(2022), month |-> 12]
    /\ ret = Return(moy)

-----------------------------------------------------------------------------
(* The renderer specification: one month block function of format.rs or    *)
(* lib.rs is applied to a month and a first weekday.                       *)

\* the years before the tests' 2022 that are enumerated one by one: with
\* 2023 they make 28 years, so that every month length starts on every
\* weekday
RenderYearSpan == 26

RenderYears ==
    {U32(2022 - d) : d \in 0..RenderYearSpan}
    \cup {U32(2023), U32(0), U32(1)}
    \cup {U32(10^k) : k \in 1..9}
    \cup {[hi |-> OverflowYear.hi, lo |-> OverflowYear.lo + d] :
             d \in (0 - EdgeSpan)..EdgeSpan}
    \cup {[hi |-> U32_MAX.hi, lo |-> U32_MAX.lo - d] : d \in 0..EdgeSpan}

InitRender ==
    /\ overflow_checks \in BOOLEAN
    /\ moy \in [year : RenderYears, month : 1..12]
    /\ fday \in 0..6
    /\ pc = "start"
    /\ ret = Panicked
    /\ NoRun

CallHeader ==
    /\ pc = "start"
    /\ pc' = "header"
    /\ ret' = Return(header(moy))
    /\ UNCHANGED <<overflow_checks, moy, fday, run_vars>>

CallWeekLine ==
    /\ pc = "start"
    /\ pc' = "week_line"
    /\ ret' = week_line(fday)
    /\ UNCHANGED <<overflow_checks, moy, fday, run_vars>>

CallDayMatrix ==
    /\ pc = "start"
    /\ pc' = "day_matrix"
    /\ ret' = day_matrix(moy, fday, overflow_checks)
    /\ UNCHANGED <<overflow_checks, moy, fday, run_vars>>

CallCalendar ==
    /\ pc = "start"
    /\ pc' = "calendar"
    /\ ret' = calendar(moy, fday, overflow_checks)
    /\ UNCHANGED <<overflow_checks, moy, fday, run_vars>>

CallYearMonthWeekHeader ==
    /\ pc = "start"
    /\ pc' = "YearMonth_week_header"
    /\ ret' = Return(YearMonth_week_header(fday))
    /\ UNCHANGED <<overflow_checks, moy, fday, run_vars>>

CallYearMonthDayMatrix ==
    /\ pc = "start"
    /\ pc' = "YearMonth_day_matrix"
    /\ ret' = YearMonth_day_matrix(moy, fday, overflow_checks)
    /\ UNCHANGED <<overflow_checks, moy, fday, run_vars>>

CallYearMonthCalendar ==
    /\ pc = "start"
    /\ pc' = "YearMonth_calendar"
    /\ ret' = YearMonth_calendar(moy, fday, overflow_checks)
    /\ UNCHANGED <<overflow_checks, moy, fday, run_vars>>

NextRender ==
    \/ CallHeader
    \/ CallWeekLine
    \/ CallDayMatrix
    \/ CallCalendar
    \/ CallYearMonthWeekHeader
    \/ CallYearMonthDayMatrix
    \/ CallYearMonthCalendar

SpecRender == InitRender /\ [][NextRender]_vars

\* the repository's tests of the renderer (format.rs and lib.rs,
\* calendar_vec): November 2022 with Sunday, Monday and Wednesday first
November2022 == [year |-> U32(2022), month |-> 11]

TestCalendarVec ==
    (pc \in {"calendar", "YearMonth_calendar"} /\ moy = November2022) =>
        /\ fday = 0 => ret = Return(<<"    November 2022    ",
                                       "Su Mo Tu We Th Fr Sa ",
                                       "       1  2  3  4  5 ",
                                       " 6  7  8  9 10 11 12 ",
                                       "13 14 15 16 17 18 19 ",
                                       "20 21 22 23 24 25 26 ",
                                       "27 28 29 30          ",
                                       "                     ">>)
        /\ fday = 1 => ret = Return(<<"    November 2022    ",
                                       "Mo Tu We Th Fr Sa Su ",
                                       "    1  2  3  4  5  6 ",
                                       " 7  8  9 10 11 12 13 ",
                                       "14 15 16 17 18 19 20 ",
                                       "21 22 23 24 25 26 27 ",
                                       "28 29 30             ",
                                       "                     ">>)
        /\ fday = 3 => ret = Return(<<"    November 2022    ",
                                       "We Th Fr Sa Su Mo Tu ",
                                       "                   1 ",
                                       " 2  3  4  5  6  7  8 ",
                                       " 9 10 11 12 13 14 15 ",
                                       "16 17 18 19 20 21 22 ",
                                       "23 24 25 26 27 28 29 ",
                                       "30                   ">>)

-----------------------------------------------------------------------------
(* Claims about the month block, checked under SpecRender.                 *)

U32Less(a, b) == a.hi < b.hi \/ (a.hi = b.hi /\ a.lo < b.lo)

\* a year whose months all render in every build: 1 <= year, and no sum of
\* weekday_of_first leaves the u32 range
PlainYear(y) == y # U32(0) /\ U32Less(y, OverflowYear)

\* cell c (0..6) of a 21-column line
CellAt(line, c) == SubSeq(line, 3 * c + 1, 3 * c + 3)

\* the month lengths as the claims word them
ClaimedMonthLength(m) ==
    IF m.month \in {1, 3, 5, 7, 8, 10, 12} THEN 31
    ELSE IF m.month \in {4, 6, 9, 11} THEN 30
    ELSE IF GregorianLeap(m.year) THEN 29 ELSE 28

\* a day number right-justified in 2 columns plus one trailing space
DayText(d) == (IF d < 10 THEN " " ELSE "") \o ToString(d) \o " "

\* C1: for every valid month and first weekday f the day grid has 6 rows of
\* 7 cells, and the cell at row r, column c holds d = start + 7r + c with
\* start = 1 - ((weekday_of_first - f) mod 7): d right-justified in 2
\* columns plus a space when 1 <= d <= month_length, 3 blanks otherwise.
\* (Every grid day_matrix returns is so, and it returns one for every year
\* from 1 up to the years whose weekday sum overflows u32.)
C1_DayGrid ==
    (pc = "day_matrix" /\ moy.year # U32(0)) =>
        /\ PlainYear(moy.year) => ret.ok
        /\ ret.ok =>
              LET w == weekday_of_first(moy, overflow_checks).v
                  start == 1 - ((w - fday) % 7)
              IN  /\ Len(ret.v) = 6
                  /\ \A r \in 0..5 :
                        /\ Len(ret.v[r + 1]) = 21
                        /\ \A c \in 0..6 :
                              LET d == start + 7 * r + c
                              IN  CellAt(ret.v[r + 1], c) =
                                     IF 1 <= d /\ d <= ClaimedMonthLength(moy)
                                     THEN DayText(d) ELSE "   "

\* November 2022 starts on a Tuesday; with Wednesday first the 1st stands
\* alone in the last cell of row 0 (start = -5) and the 30th opens row 5
C1_Witness ==
    /\ pc = "day_matrix"
    /\ moy = November2022
    /\ fday = 3
    /\ ret.ok
    /\ ret.v[1] = "                   1 "
    /\ ret.v[6] = "30                   "

ClaimedAbbrev == <<"Su", "Mo", "Tu", "We", "Th", "Fr", "Sa">>

\* C2: for every valid month and first weekday f, every in-month day d is
\* rendered in the column c whose weekday-row label is the actual weekday of
\* d: (f + c) mod 7 = (weekday_of_first + d - 1) mod 7.  (Every block of
\* either engine, format.rs's calendar and lib.rs's YearMonth::calendar.)
C2_DayUnderItsWeekday ==
    (pc \in {"calendar", "YearMonth_calendar"} /\ moy.year # U32(0)) =>
        /\ PlainYear(moy.year) => ret.ok
        /\ ret.ok =>
              LET w == weekday_of_first(moy, overflow_checks).v
                  len == ClaimedMonthLength(moy)
                  Shown == {rc \in (0..5) \X (0..6) :
                               CellAt(ret.v[3 + rc[1]], rc[2]) # "   "}
              IN  \* every in-month day stands under the label of its weekday
                  /\ \A d \in 1..len :
                        \E c \in 0..6 :
                           /\ (fday + c) % 7 = (w + d - 1) % 7
                           /\ CellAt(ret.v[2], c) =
                                 ClaimedAbbrev[((w + d - 1) % 7) + 1] \o " "
                           /\ \E r \in 0..5 : CellAt(ret.v[3 + r], c) = DayText(d)
                  \* and nowhere else: no other cell shows anything
                  /\ Cardinality(Shown) = len

\* November 2022 with Monday first: the weekday row starts at Mo and the
\* 1st, a Tuesday, is in the second column
C2_Witness ==
    /\ pc = "YearMonth_calendar"
    /\ moy = November2022
    /\ fday = 1
    /\ ret.ok
    /\ ret.v[2] = "Mo Tu We Th Fr Sa Su "
    /\ ret.v[3] = "    1  2  3  4  5  6 "

\* C10: for every representable year, month and first weekday the rendered
\* MonthBlock is 8 lines (header, weekday row, 6 day rows), each 21
\* characters wide, the header for every year a u32 holds.  (Every block
\* calendar returns, and it returns one for every year from 1 up to the
\* years whose weekday sum overflows u32.)
C10_BlockShape ==
    /\ pc = "header" => (ret.ok /\ Len(ret.v) = 21)
    /\ pc \in {"calendar", "YearMonth_calendar"} =>
          /\ PlainYear(moy.year) => ret.ok
          /\ ret.ok =>
                /\ Len(ret.v) = 8
                /\ \A i \in 1..8 : Len(ret.v[i]) = 21
                /\ ret.v[1] = header(moy)

\* the longest month name with a ten-digit year: 20 characters, one space
\* of slack, which goes after the text
C10_Witness ==
    /\ pc = "calendar"
    /\ moy = [year |-> U32(10^9), month |-> 9]
    /\ ret.ok
    /\ Len(ret.v) = 8
    /\ ret.v[1] = "September 1000000000 "

-----------------------------------------------------------------------------
(* Claims about the planner and the composer, checked under Spec.          *)

\* the iterator has been made: the months yielded so far are a planned
\* prefix
Planning == pc \in {"iter", "done", "panic"} /\ iter # None

\* the months yielded so far follow each other by succ, and by the calendar
\* wherever the next month's year is a u32
Consecutive ==
    \A i \in 1..(Len(months) - 1) :
        /\ succ(months[i], overflow_checks) = Return(months[i + 1])
        /\ months[i] # LastMonth => IsNextMonth(months[i], months[i + 1])

\* every month asked for and none more, once the iterator has ended
YieldedOf(n) ==
    /\ Len(months) <= n
    /\ pc = "iter" => Len(months) + iter.left = n
    /\ pc = "done" => (Len(months) = n /\ iter.left = 0)

Ceil(n, k) == (n + k - 1) \div k

\* the size of group g (from 0) of n blocks in groups of k
GroupSize(g, n, k) == IF (g + 1) * k <= n THEN k ELSE n - g * k

\* where line l (from 0) of the output starts, every block line being 21
\* wide and every group before the last one full
LineOffset(l, n, k) ==
    (l \div 8) * 8 * 22 * k + (l % 8) * 22 * GroupSize(l \div 8, n, k)

\* C3: n >= 1 blocks in k >= 1 columns are laid out in planner order in
\* consecutive groups of k (the last maybe shorter): 8 lines per group, line
\* i of a group being line i of its blocks joined by single spaces, groups
\* separated by a newline only, 8 * ceil(n / k) lines in all, block j in
\* group j div k at column j mod k.
C3_Grid ==
    (pc = "done" /\ Len(cals) >= 1) =>
        LET n == Len(cals)
            k == cal.v.column
            text == output.v
            nlines == 8 * Ceil(n, k)
            Newlines == {p \in 1..Len(text) : SubSeq(text, p, p) = "\n"}
        IN  /\ k >= 1
            /\ n = Len(months)
            /\ Cardinality(Newlines) + 1 = nlines
            /\ Newlines = {LineOffset(l, n, k) + 22 * GroupSize(l \div 8, n, k) :
                              l \in 0..(nlines - 2)}
            /\ Len(text) = LineOffset(nlines - 1, n, k)
                              + 22 * GroupSize((nlines - 1) \div 8, n, k) - 1
            /\ \A j \in 0..(n - 1) : \A i \in 0..7 :
                  LET at == LineOffset(8 * (j \div k) + i, n, k) + 22 * (j % k)
                  IN  /\ SubSeq(text, at + 1, at + 21) = cals[j + 1][i + 1]
                      /\ (j % k) > 0 => SubSeq(text, at, at) = " "

\* four months from November 2022 in three columns: a full group and a
\* group of one, 16 lines
C3_Witness ==
    /\ pc = "done"
    /\ cli.len_n = Some(4)
    /\ ~cli.span
    /\ ~cli.year.some
    /\ cal.v.column = 3
    /\ Len(output.v) = 8 * 66 + 8 * 22 - 1
    /\ SubSeq(output.v, 1, 65) =
          "    November 2022         December 2022         January 2023     "
    /\ SubSeq(output.v, 8 * 66 + 1, 8 * 66 + 21) = "    February 2023    "

\* C4: in span mode with query month q and count n the planner yields
\* exactly n consecutive months starting floor(n/2) applications of pred
\* before q, so q is the element at index floor(n/2) (November 2022, n = 4:
\* September..December 2022).
C4_SpanWindow ==
    (Planning /\ cal.v.range.span) =>
        LET q == cal.v.range.origin
            n == cal.v.range.len
        IN  /\ YieldedOf(n)
            /\ Len(months) >= 1 =>
                  Return(months[1]) = PredTimes(q, n \div 2, overflow_checks)
            /\ Consecutive
            /\ Len(months) > n \div 2 => months[(n \div 2) + 1] = q
            /\ (pc = "done" /\ q = Today /\ n = 4) =>
                  months = [i \in 1..4 |-> [year |-> U32(2022), month |-> 8 + i]]

\* the spec's example: -n 4 -S in November 2022
C4_Witness ==
    /\ pc = "done"
    /\ cli.len_n = Some(4)
    /\ cli.span
    /\ ~cli.year.some
    /\ months[1] = [year |-> U32(2022), month |-> 9]
    /\ months[3] = Today
    /\ Len(months) = 4

\* C5: in base mode with query month q and count n the planner yields
\* exactly n months and then ends: the first is q, each following one the
\* succ of the one before (December rolling into January of the next year).
C5_BaseWindow ==
    (Planning /\ ~cal.v.range.span) =>
        LET q == cal.v.range.origin
            n == cal.v.range.len
        IN  /\ YieldedOf(n)
            /\ Len(months) >= 1 => months[1] = q
            /\ Consecutive

\* three months from December 2022 roll into 2023
C5_Witness ==
    /\ pc = "done"
    /\ cli.len_n = Some(3)
    /\ ~cli.span
    /\ months = <<[year |-> U32(2022), month |-> 12],
                  [year |-> U32(2023), month |-> 1],
                  [year |-> U32(2023), month |-> 2]>>

\* whole-year mode: the year flag, or a year without a month and no length
\* flag
WholeYear ==
    \/ cli.len_y
    \/ /\ ~cli.len_1 /\ ~cli.len_3 /\ ~cli.len_n.some
       /\ cli.year.some /\ ~cli.month.some

QueryYear == IF cli.year.some THEN cli.year.v ELSE env.now.year

\* C6: whenever whole-year mode applies the planned sequence is exactly
\* January..December of the query year, in order, whatever the queried
\* month and the span flag.  (Whenever parse_cli accepts the command line:
\* in this mode only a first weekday outside 0..6 makes it fail.)
C6_WholeYear ==
    (WholeYear /\ pc # "cli") =>
        /\ ~cal.ok => (pc = "error" /\ cal.err = "InvalidWeekday")
        /\ PlainYear(QueryYear) => pc # "panic"
        /\ pc \in {"iter", "done"} => Len(months) + iter.left = 12
        /\ \A i \in 1..Len(months) : months[i] = [year |-> QueryYear, month |-> i]
        /\ pc = "done" => Len(months) = 12

\* -y -S 2022 12: the month and the span flag are ignored
C6_Witness ==
    /\ pc = "done"
    /\ cli.len_y
    /\ cli.span
    /\ cli.year = Some(U32(2022))
    /\ cli.month = Some(12)
    /\ Len(months) = 12
    /\ months[1] = [year |-> U32(2022), month |-> 1]
    /\ months[12] = [year |-> U32(2022), month |-> 12]

-----------------------------------------------------------------------------
(* Claims about failure and validation, checked under Spec.                *)

\* the inputs the engine is handed are valid: parse_cli accepted the month
\* and the first weekday, the year is at least 1, and the plan asks for at
\* least one month in at least one column
ValidInputs ==
    /\ pc # "cli"
    /\ cal.ok
    /\ cal.v.range.origin.year # U32(0)
    /\ cal.v.range.origin.month \in 1..12
    /\ cal.v.range.len >= 1
    /\ cal.v.column >= 1
    /\ cal.v.fday \in 0..6

\* C11 (as claimed): once the inputs are valid, planning the month sequence
\* and rendering every planned month cannot fail: no step of pred, succ,
\* weekday_of_first or the layout panics, span mode included.
C11_CannotFail == ValidInputs => pc # "panic"

\* C11, below the overflow: the runs that ask for at most MaxLen months
\* around a month of a year 1 .. 3435973835 do not fail and end with an
\* output
C11_CannotFailBelowOverflow ==
    (ValidInputs /\ PlainYear(cal.v.range.origin.year)) =>
        /\ pc # "panic"
        /\ pc = "done" => (output.ok /\ Len(cals) = cal.v.range.len)

\* what the command line supplies that is no month, and no weekday
BadMonth == cli.month.some /\ cli.month.v \notin 1..12
BadWeekday == cli.fday_n.some /\ cli.fday_n.v \notin 0..6

\* parse_cli failed with the error of a supplied value that is invalid
RejectedWithOffender ==
    /\ pc = "error"
    /\ ~cal.ok
    /\ \/ BadMonth /\ cal.err = "InvalidMonth" /\ cal.val = cli.month.v
       \/ BadWeekday /\ cal.err = "InvalidWeekday" /\ cal.val = cli.fday_n.v

\* C12 (as claimed): a month outside 1..12 or a first weekday outside 0..6
\* given on the command line always fails before reaching the engine: for
\* every combination of flags parse_cli returns InvalidMonth(v) or
\* InvalidWeekday(v) with the offending v and no CalFormat, while every
\* month 1..12 and weekday 0..6 is accepted.
C12_InvalidRejected ==
    pc # "cli" =>
        IF BadMonth \/ BadWeekday THEN RejectedWithOffender
        ELSE cal.ok /\ pc # "error"

\* C12, apart from the year flag: the same for every command line without
\* -y; with -y only the first weekday is validated
C12_InvalidRejectedUnlessYearFlag ==
    pc # "cli" =>
        IF (BadMonth /\ ~cli.len_y) \/ BadWeekday THEN RejectedWithOffender
        ELSE cal.ok /\ pc # "error"

-----------------------------------------------------------------------------
(* Claims about the layout policy, checked under Spec.                     *)

\* the month the command line asks about: the positionals, the current
\* date where they are absent
QueryMonth ==
    [year |-> QueryYear,
     month |-> IF cli.month.some THEN cli.month.v ELSE env.now.month]

January(y) == [year |-> y, month |-> 1]

Plan(origin, len, span) == [origin |-> origin, len |-> len, span |-> span]

\* C13: the layout policy follows the precedence single-month flag >
\* three-month flag > year flag > N-months flag > implicit whole year (year
\* given, month omitted) > default single month: -1 gives (query month, 1,
\* no span), -3 (query month, 3, span whatever the span flag), -y (January,
\* 12, no span), -n N (query month, N, the span flag), and with no length
\* flag a year without a month gives (January, 12, no span), anything else
\* (query month, 1, no span).
C13_PolicyPrecedence ==
    (pc # "cli" /\ cal.ok) =>
        /\ cli.len_1 => cal.v.range = Plan(QueryMonth, 1, FALSE)
        /\ (~cli.len_1 /\ cli.len_3) => cal.v.range = Plan(QueryMonth, 3, TRUE)
        /\ (~cli.len_1 /\ ~cli.len_3 /\ cli.len_y) =>
              cal.v.range = Plan(January(QueryYear), 12, FALSE)
        /\ (~cli.len_1 /\ ~cli.len_3 /\ ~cli.len_y /\ cli.len_n.some) =>
              cal.v.range = Plan(QueryMonth, cli.len_n.v, cli.span)
        /\ (~cli.len_1 /\ ~cli.len_3 /\ ~cli.len_y /\ ~cli.len_n.some) =>
              IF cli.year.some /\ ~cli.month.some
              THEN cal.v.range = Plan(January(QueryYear), 12, FALSE)
              ELSE cal.v.range = Plan(QueryMonth, 1, FALSE)

\* cal -3 2022 without -S: the explicit flag wins over the implicit whole
\* year, and the window spans although the span flag is off
C13_Witness ==
    /\ pc = "parsed"
    /\ cli.len_3
    /\ ~cli.span
    /\ cli.year = Some(U32(2022))
    /\ ~cli.month.some
    /\ cal.ok
    /\ cal.v.range = Plan(Today, 3, TRUE)

\* the positions of the newlines of a text
NewlinesOf(text) == {p \in 1..Len(text) : SubSeq(text, p, p) = "\n"}

\* the first line of a text
FirstLineOf(text) ==
    LET nl == NewlinesOf(text)
    IN  IF nl = {} THEN text
        ELSE SubSeq(text, 1, (CHOOSE p \in nl : \A q \in nl : p <= q) - 1)

\* "<MonthName> <Year>" and "<MonthName>" centred in 21 columns, and the
\* year centred in w columns, as the spec words them
ClaimedHeader(m) ==
    LET t == Month_to_string(m.month) \o " " \o u32_to_string(m.year)
        slack == 21 - Len(t)
    IN  Spaces(slack \div 2) \o t \o Spaces(slack - (slack \div 2))

ClaimedBareHeader(m) ==
    LET t == Month_to_string(m.month)
        slack == 21 - Len(t)
    IN  Spaces(slack \div 2) \o t \o Spaces(slack - (slack \div 2))

ClaimedBanner(y, w) ==
    LET t == u32_to_string(y)
        slack == w - Len(t)
    IN  Spaces(slack \div 2) \o t \o Spaces(slack - (slack \div 2))

\* the whole-year layout of the claim: the banner, a blank line, then the
\* groups of k blocks, a block being its header without the year above the
\* weekday row and day rows, the blocks of a group two spaces apart
ClaimedWholeYearText(y, blocks, k) ==
    LET bare == [j \in 1..Len(blocks) |->
                    <<ClaimedBareHeader([year |-> y, month |-> j])>>
                        \o Tail(blocks[j])]
        groups == chunks(bare, k)
        group_text(cs) ==
            Join([i \in 1..8 |-> Join([b \in 1..Len(cs) |-> cs[b][i]], "  ")],
                 "\n")
    IN  ClaimedBanner(y, 21 * k + 2 * (k - 1)) \o "\n" \o "\n"
            \o Join([g \in 1..Len(groups) |-> group_text(groups[g])], "\n")

\* C14 (as claimed): in whole-year mode the output uses the whole-year
\* layout: each month's header omits the year, which is shown once in a
\* centred banner followed by a blank line above the first group, and the
\* blocks of a group are separated by two spaces instead of one.
C14_WholeYearLayout ==
    (WholeYear /\ pc = "done") =>
        /\ output.v = ClaimedWholeYearText(QueryYear, cals, cal.v.column)
        /\ \A j \in 1..Len(cals) : cals[j][1] = ClaimedBareHeader(months[j])

\* C14 (amended): in whole-year mode the output uses the layout of every
\* other mode: no banner and no blank line, 8 lines per group of blocks,
\* every header showing "<MonthName> <Year>", and the blocks of a group
\* separated by a single space.
C14_WholeYearSameLayout ==
    (WholeYear /\ pc = "done") =>
        LET k == cal.v.column
            text == output.v
            first == Join([j \in 1..(IF k < 12 THEN k ELSE 12) |->
                              ClaimedHeader([year |-> QueryYear, month |-> j])],
                          " ")
        IN  /\ Len(cals) = 12
            /\ \A j \in 1..12 :
                  cals[j][1] = ClaimedHeader([year |-> QueryYear, month |-> j])
            /\ FirstLineOf(text) = first
            /\ Cardinality(NewlinesOf(text)) + 1 = 8 * Ceil(12, k)
            /\ \A j \in 0..11 : \A i \in 0..7 :
                  LET at == LineOffset(8 * (j \div k) + i, 12, k) + 22 * (j % k)
                  IN  /\ SubSeq(text, at + 1, at + 21) = cals[j + 1][i + 1]
                      /\ (j % k) > 0 => SubSeq(text, at, at) = " "

\* cal 2022 in three columns: the first line is the three headers with
\* their year, one space apart, and there are 32 lines
C14_Witness ==
    /\ pc = "done"
    /\ WholeYear
    /\ ~cli.len_y
    /\ cli.year = Some(U32(2022))
    /\ cal.v.column = 3
    /\ FirstLineOf(output.v) =
          "    January 2022          February 2022          March 2022      "
    /\ Cardinality(NewlinesOf(output.v)) = 31

\* C15 (as claimed): every render plan parse_cli hands to the engine has
\* month count >= 1 and column count >= 1, for every accepted command
\* line, an N-months value of 0 and a column value of 0 included.
C15_PlanAtLeastOne ==
    (pc # "cli" /\ cal.ok) =>
        /\ cal.v.range.len >= 1
        /\ cal.v.column >= 1

\* C15, as far as it holds: the column count is at least 1 on every
\* accepted command line (--column 0 and a terminal narrower than one
\* block included), and the month count is at least 1 except under -n 0,
\* which plans no month and prints nothing
C15_ColumnAtLeastOne ==
    (pc # "cli" /\ cal.ok) =>
        /\ cal.v.column >= 1
        /\ cal.v.range.len >= 1 <=> cli.len_n # Some(0)
        /\ (pc = "done" /\ cli.len_n = Some(0)) => output = Return("")

-----------------------------------------------------------------------------
(* Claims about the lines of a month block, checked under SpecRender.      *)

\* C16: for every first weekday f in 0..6 the weekday row is the 7
\* two-letter abbreviations of weekdays (f + i) mod 7 for i = 0..6 in that
\* order (Su, Mo, Tu, We, Th, Fr, Sa cyclically, Saturday followed by
\* Sunday), each followed by one space, so each weekday appears exactly
\* once and the row is 21 characters.  (Of both engines: format.rs's
\* week_line and lib.rs's week_header.)
C16_WeekdayRow ==
    (pc \in {"week_line", "YearMonth_week_header"}) =>
        /\ ret.ok
        /\ Len(ret.v) = 21
        /\ \A i \in 0..6 :
              CellAt(ret.v, i) = ClaimedAbbrev[((fday + i) % 7) + 1] \o " "
        /\ \A w \in 1..7 :
              Cardinality({i \in 0..6 :
                              CellAt(ret.v, i) = ClaimedAbbrev[w] \o " "}) = 1
        /\ \A i \in 0..5 :
              CellAt(ret.v, i) = "Sa " => CellAt(ret.v, i + 1) = "Su "

\* Saturday first: the row wraps from Sa to Su at once
C16_Witness ==
    /\ pc = "YearMonth_week_header"
    /\ fday = 6
    /\ ret = Return("Sa Su Mo Tu We Th Fr ")

\* C17: for every month and year the header line is "<MonthName> <Year>"
\* centred in 21 columns with spaces: with slack s = 21 - the length of the
\* text, floor(s / 2) spaces before it and s - floor(s / 2) after it, the
\* extra space of an odd slack after the text.  (header itself, and the
\* first line of every block either engine returns.)
C17_HeaderCentred ==
    /\ pc = "header" =>
          /\ ret = Return(ClaimedHeader(moy))
          /\ moy = [year |-> U32(2022), month |-> 1] =>
                ret.v = "    January 2022     "
          /\ moy = [year |-> U32(2022), month |-> 2] =>
                ret.v = "    February 2022    "
          /\ moy = [year |-> U32(2022), month |-> 3] =>
                ret.v = "     March 2022      "
    /\ (pc \in {"calendar", "YearMonth_calendar"} /\ ret.ok) =>
          ret.v[1] = ClaimedHeader(moy)

\* January 2022: the text is 12 characters, the slack 9, four spaces
\* before and five after
C17_Witness ==
    /\ pc = "header"
    /\ moy = [year |-> U32(2022), month |-> 1]
    /\ ret = Return("    January 2022     ")

\* C18: for every valid month and first weekday the fixed 6 day rows always
\* suffice and never duplicate: each day number 1..month_length appears in
\* exactly one of the 42 cells, in increasing order reading the cells row
\* by row, and every other cell is blank (start is in -5..1).  (Every grid
\* day_matrix of either engine returns: the days fill consecutive cells
\* from one of the first seven, and it returns a grid for every year from
\* 1 up to the years whose weekday sum overflows u32.)
C18_SixRowsSuffice ==
    (pc \in {"day_matrix", "YearMonth_day_matrix"} /\ moy.year # U32(0)) =>
        /\ PlainYear(moy.year) => ret.ok
        /\ ret.ok =>
              /\ Len(ret.v) = 6
              /\ LET len == ClaimedMonthLength(moy)
                     cell(p) == CellAt(ret.v[(p \div 7) + 1], p % 7)
                     Shown == {p \in 0..41 : cell(p) # "   "}
                 IN  \* exactly len cells show something: the days 1..len in
                     \* order, in consecutive cells from one of the first
                     \* seven on, so that no day is shown twice and every
                     \* other cell is blank
                     /\ Cardinality(Shown) = len
                     /\ LET first == CHOOSE p \in Shown : \A q \in Shown : p <= q
                        IN  /\ first \in 0..6
                            /\ \A d \in 1..len : cell(first + d - 1) = DayText(d)

\* October 2022 starts on a Saturday: with Sunday first the 1st is the last
\* cell of row 0 and the 30th and 31st need the sixth row
C18_Witness ==
    /\ pc = "day_matrix"
    /\ moy = [year |-> U32(2022), month |-> 10]
    /\ fday = 0
    /\ ret.ok
    /\ ret.v[1] = "                   1 "
    /\ ret.v[6] = "30 31                "

-----------------------------------------------------------------------------
(* Claims about the weekday arithmetic, checked under SpecDate.            *)

\* the congruence over the unbounded integers, for a year >= 1: every term
\* is taken mod 7 before it is added, so that no sum is larger than 40
\* (1 + y + y/4 - y/100 + y/400 + 31m/12 with y = year - a)
CongruenceWeekday(self) ==
    LET a == (14 - self.month) \div 12
        y == u32_sub(Ok(self.year), Ok(U32(a)), TRUE)
        m == self.month + 12 * a - 2
    IN  (1 + u32_rem(y, 7) + u32_rem(u32_div(y, 4), 7)
           + (7 - u32_rem(u32_div(y, 100), 7)) + u32_rem(u32_div(y, 400), 7)
           + ((31 * m) \div 12)) % 7

\* C19 (as claimed): weekday_of_first in 32-bit unsigned arithmetic gives
\* the value of the congruence over unbounded integers for every month and
\* every year from 1 to the largest representable year: y = year - a is not
\* below 0, m = month + 12a - 2 is in 1..12, no partial sum leaves
\* 0 .. 2^32 - 1, and the result is in 0..6, so that its conversion to a
\* Weekday never fails.
C19_FitsU32EveryYear ==
    (pc \in {"weekday_of_first", "YearMonth_weekday_of_first"}
        /\ moy.year # U32(0)) =>
        LET a == (14 - moy.month) \div 12
        IN  /\ u32_sub(Ok(moy.year), Ok(U32(a)), TRUE).ok
            /\ (moy.month + 12 * a - 2) \in 1..12
            \* evaluated with overflow checks, no partial sum overflows
            /\ weekday_of_first(moy, TRUE).ok
            /\ ret.ok
            /\ ret.v \in 0..6
            /\ ret.v = CongruenceWeekday(moy)

\* C19, below the overflow: the same for the years 1 .. 3435973835
C19_FitsU32BelowOverflow ==
    (pc \in {"weekday_of_first", "YearMonth_weekday_of_first"}
        /\ PlainYear(moy.year)) =>
        LET a == (14 - moy.month) \div 12
        IN  /\ u32_sub(Ok(moy.year), Ok(U32(a)), TRUE).ok
            /\ (moy.month + 12 * a - 2) \in 1..12
            /\ weekday_of_first(moy, TRUE).ok
            /\ ret.ok
            /\ ret.v \in 0..6
            /\ ret.v = CongruenceWeekday(moy)

=============================================================================
